---------------------------- MODULE Spec2Model ----------------------------
(***************************************************************************)
(* State-machine model of streamlit-prettymapp/app.py: the Nominatim       *)
(* location search (search_locations), its st.cache_data(ttl=300) memo,    *)
(* the handling of uploaded boundary files, and the map-generation         *)
(* pipeline (get_aoi -> st_get_osm_geometries -> st_plot_all).             *)
(*                                                                         *)
(* Three specifications share the module:                                  *)
(*   SpecSearch  the body of search_locations applied to every query,      *)
(*               limit and upstream outcome;                               *)
(*   SpecCache   search_locations behind its time-to-live cache, with a    *)
(*               clock;                                                    *)
(*   Spec        the script runs of one browser session: the file-upload   *)
(*               section and the map-generation section;                   *)
(*   SpecUI      the script runs of one browser session: the location      *)
(*               search section, with the cached search behind it.         *)
(***************************************************************************)
EXTENDS Integers, Sequences, FiniteSets, TLC

VARIABLES
    call,           \* SpecSearch: the arguments and upstream outcome of a call
    out,            \* SpecSearch: <<>> before the call, <<its outcome>> after
    now,            \* SpecCache: the clock, in seconds
    searchCache,    \* SpecCache: st.cache_data store of search_locations
    lastSearch,     \* SpecCache: the last call through the cache
    nCalls,         \* SpecCache: calls made so far (bounded by MaxCalls)
    pc,             \* Spec: where the current script run stands ("idle": none)
    uploaded_file,  \* Spec: the file held by the st.file_uploader widget
    submit_button,  \* Spec: whether this run was started by the form's submit
    address,        \* Spec: this run's address, read from the submitted form
    radius,         \* Spec: this run's radius, read from the submitted form
    shape,          \* Spec: this run's shape, read from the submitted form
    uploaded_gdf,   \* Spec: st.session_state.uploaded_gdf
    use_uploaded_file, \* Spec: st.session_state.use_uploaded_file
    geomCache,      \* Spec: the store of the cached st_get_osm_geometries
    pipeline,       \* Spec: state of this run's resolution pipeline
    aoi,            \* Spec: this run's aoi (<<>> until get_aoi returns)
    df,             \* Spec: this run's df (<<>> until the fetch returns)
    messages,       \* Spec: what this run has shown to the user
    raisedIn,       \* Spec: the call of this run that raised ("none" if none)
    uncaught,       \* Spec: the exception that escaped this run's script
    geomCalls,      \* Spec: calls of st_get_osm_geometries in this run
    fetches,        \* Spec: upstream geometry fetches in this run
    renders,        \* Spec: calls of st_plot_all in this run
    returned,       \* Spec: per AOI, the values the geometry cache has returned
    uiPc,           \* SpecUI: where the current script run stands
    event,          \* SpecUI: the interaction that started the current run
    location_search, \* SpecUI: the text held by the search box widget
    search_query,   \* SpecUI: st.session_state.search_query
    search_results, \* SpecUI: st.session_state.search_results
    session_address, \* SpecUI: st.session_state.address
    selected_area   \* SpecUI: st.session_state.selected_area

searchVars == <<call, out>>
cacheVars == <<now, searchCache, lastSearch, nCalls>>
widgetVars == <<uploaded_file, submit_button>>
formVars == <<address, radius, shape>>
sessionVars == <<uploaded_gdf, use_uploaded_file, geomCache, returned>>
runVars == <<pipeline, aoi, df, messages, raisedIn, uncaught, geomCalls,
             fetches, renders>>
appVars == <<pc, widgetVars, formVars, sessionVars, runVars>>
uiVars == <<uiPc, event, location_search, search_query, search_results,
            session_address, selected_area>>
vars == <<searchVars, cacheVars, appVars, uiVars>>

---------------------------------------------------------------------------
(* Bounds of the model                                                     *)

MaxQueryLen == 3
MaxLimit == 1
MaxItems == 3
MaxImp == 2
MaxCalls == 2
MaxTicks == 3
MaxGeomVersions == 2

(* Program constants                                                       *)

MinQueryLen == 2
DefaultLimit == 8
HttpOK == 200
TTL == 300
MinRadius == 100
MaxRadius == 1500
AutoSearchLen == 3
MaxLabelLen == 70
CutLen == 67

---------------------------------------------------------------------------
(* Inputs of search_locations                                              *)

Alphabet == {"a"}

Queries == UNION {[1..n -> Alphabet] : n \in 0..MaxQueryLen}

Limits == (1..MaxLimit) \cup {DefaultLimit}

(* A JSON value as the upstream may send it for lat, lon or importance:    *)
(* the key is absent, null, a number, a numeric string, or other text.     *)
RawAbsent == [t |-> "absent", v |-> 0]
RawNull == [t |-> "null", v |-> 0]
RawText == [t |-> "text", v |-> 0]
RawNum(n) == [t |-> "num", v |-> n]
RawNumStr(n) == [t |-> "numstr", v |-> n]

RawImportances ==
    {RawAbsent, RawNull, RawText} \cup {RawNum(n) : n \in 0..MaxImp}

(* Texts are sequences of characters; the empty text also stands for a    *)
(* key that is absent. The texts the upstream may send in the fields that  *)
(* make the label:                                                         *)
NoText == <<>>
NameUr == <<"U", "r">>
LongName == [i \in 1..CutLen |-> "x"]
CityBo == <<"B", "o">>
TownAy == <<"A", "y">>
VillageEe == <<"E", "e">>
MunicipalityOm == <<"O", "m">>
CountryQ == <<"Q">>
DisplayD1 == <<"D", "1">>
DisplayD2 == <<"D", "2">>

(* item['address'], an absent key reading as the empty text; an absent     *)
(* 'address' reads as the address with no key.                             *)
NoAddress == [city |-> NoText, town |-> NoText, village |-> NoText,
              municipality |-> NoText, country |-> NoText]

BaseItem == [lat |-> RawNumStr(0), lon |-> RawNumStr(0),
             importance |-> RawNum(0), display_name |-> DisplayD1,
             name |-> NoText, address |-> NoAddress]

GoodItems == {[BaseItem EXCEPT !.importance = i] : i \in RawImportances}

BadCoordItems ==
    {[BaseItem EXCEPT !.lat = RawText], [BaseItem EXCEPT !.lon = RawNull]}

Items == GoodItems \cup BadCoordItems

ItemLists == UNION {[1..n -> Items] : n \in 0..MaxItems}

(* Items that differ in their display_name, to follow each one through the *)
(* sort.                                                                   *)
RankItems ==
    {[BaseItem EXCEPT !.importance = i, !.display_name = d] :
        i \in {RawNum(n) : n \in 0..MaxImp},
        d \in {DisplayD1, DisplayD2}}

RankLists == UNION {[1..n -> RankItems] : n \in 0..MaxItems}

(* Items over every combination of the fields that make the label.         *)
ItemAddresses ==
    [city : {NoText, CityBo, NameUr}, town : {NoText, TownAy},
     village : {NoText, VillageEe}, municipality : {NoText, MunicipalityOm},
     country : {NoText, CountryQ}]

LabelItems ==
    {[BaseItem EXCEPT !.name = n, !.address = a, !.display_name = d,
                      !.importance = RawNum(1)] :
        n \in {NoText, NameUr, LongName}, a \in ItemAddresses,
        d \in {NoText, DisplayD2}}

LabelLists ==
    {<<i>> : i \in LabelItems} \cup {<<BaseItem, i>> : i \in LabelItems}

(* What requests.get(...) yields: an exception of the transport, or a      *)
(* response with a status code and a body.                                 *)
NoData == <<>>

TransportFailures ==
    {[kind |-> k, status |-> 0, body |-> "none", data |-> NoData] :
        k \in {"timeout", "connerr"}}

NonSuccessResponses ==
    {[kind |-> "http", status |-> s, body |-> "none", data |-> NoData] :
        s \in {404, 500}}

BadBodyResponses ==
    {[kind |-> "http", status |-> HttpOK, body |-> b, data |-> NoData] :
        b \in {"unparsable", "object"}}

ListResponses ==
    {[kind |-> "http", status |-> HttpOK, body |-> "list", data |-> d] :
        d \in ItemLists \cup RankLists \cup LabelLists}

Responses ==
    TransportFailures \cup NonSuccessResponses \cup BadBodyResponses
        \cup ListResponses

---------------------------------------------------------------------------
(* search_locations                                                        *)

(* float(item.get(key, 0))                                                 *)
ToFloat(raw) ==
    CASE raw.t = "absent" -> [ok |-> TRUE, v |-> 0, exc |-> "none"]
      [] raw.t = "num" -> [ok |-> TRUE, v |-> raw.v, exc |-> "none"]
      [] raw.t = "numstr" -> [ok |-> TRUE, v |-> raw.v, exc |-> "none"]
      [] raw.t = "null" -> [ok |-> FALSE, v |-> 0, exc |-> "TypeError"]
      [] OTHER -> [ok |-> FALSE, v |-> 0, exc |-> "ValueError"]

(* ', '.join(parts)                                                        *)
RECURSIVE Join(_)
Join(parts) ==
    IF parts = <<>> THEN <<>>
    ELSE IF Len(parts) = 1 THEN parts[1]
    ELSE parts[1] \o <<",", " ">> \o Join(Tail(parts))

(* a or b, on texts: the first if it is not empty, else the second         *)
Or(a, b) == IF a # NoText THEN a ELSE b

(* if len(clean_name) > 70: clean_name = clean_name[:67] + "..."           *)
LimitLength(text) ==
    IF Len(text) > MaxLabelLen
    THEN SubSeq(text, 1, CutLen) \o <<".", ".", ".">>
    ELSE text

(* The label built from city or town only, with no test against the name.  *)
CleanNameCityTown(item) ==
    LET city == Or(item.address.city, item.address.town)
        parts == (IF item.name # NoText THEN <<item.name>> ELSE <<>>)
                   \o (IF city # NoText THEN <<city>> ELSE <<>>)
                   \o (IF item.address.country # NoText
                       THEN <<item.address.country>> ELSE <<>>)
    IN  LimitLength(IF parts # <<>> THEN Join(parts) ELSE item.display_name)

(* clean_name: name, then the first of city, town, village, municipality   *)
(* unless it equals the name, then country; display_name when there is no  *)
(* part; cut when longer than 70 characters.                               *)
CleanName(item) ==
    LET city == Or(item.address.city,
                   Or(item.address.town,
                      Or(item.address.village, item.address.municipality)))
        parts == (IF item.name # NoText THEN <<item.name>> ELSE <<>>)
                   \o (IF city # NoText /\ city # item.name
                       THEN <<city>> ELSE <<>>)
                   \o (IF item.address.country # NoText
                       THEN <<item.address.country>> ELSE <<>>)
    IN  LimitLength(IF parts # <<>> THEN Join(parts) ELSE item.display_name)

(* The dict appended to results for one upstream item, or the exception    *)
(* its conversions raise (lat, then lon, then importance).                 *)
ConvertItem(item) ==
    LET la == ToFloat(item.lat)
        lo == ToFloat(item.lon)
        im == ToFloat(item.importance)
    IN  IF ~la.ok THEN [ok |-> FALSE, exc |-> la.exc, rec |-> <<>>]
        ELSE IF ~lo.ok THEN [ok |-> FALSE, exc |-> lo.exc, rec |-> <<>>]
        ELSE IF ~im.ok THEN [ok |-> FALSE, exc |-> im.exc, rec |-> <<>>]
        ELSE [ok |-> TRUE, exc |-> "none",
              rec |-> <<[display_name |-> CleanName(item),
                         full_address |-> item.display_name,
                         lat |-> la.v, lon |-> lo.v, importance |-> im.v]>>]

(* for item in data: results.append({...})                                 *)
RECURSIVE BuildResults(_, _)
BuildResults(data, results) ==
    IF data = <<>> THEN [ok |-> TRUE, exc |-> "none", results |-> results]
    ELSE LET c == ConvertItem(Head(data))
         IN  IF ~c.ok THEN [ok |-> FALSE, exc |-> c.exc, results |-> <<>>]
             ELSE BuildResults(Tail(data), results \o c.rec)

(* One step of a stable descending sort: r goes after every element whose  *)
(* importance is at least its own.                                         *)
RECURSIVE InsertDesc(_, _)
InsertDesc(sorted, r) ==
    IF sorted = <<>> THEN <<r>>
    ELSE IF Head(sorted).importance >= r.importance
         THEN <<Head(sorted)>> \o InsertDesc(Tail(sorted), r)
         ELSE <<r>> \o sorted

(* The sort without reverse=True: ascending importance.                    *)
RECURSIVE InsertAsc(_, _)
InsertAsc(sorted, r) ==
    IF sorted = <<>> THEN <<r>>
    ELSE IF Head(sorted).importance <= r.importance
         THEN <<Head(sorted)>> \o InsertAsc(Tail(sorted), r)
         ELSE <<r>> \o sorted

RECURSIVE SortAscending(_)
SortAscending(results) ==
    IF results = <<>> THEN <<>>
    ELSE InsertAsc(SortAscending(SubSeq(results, 1, Len(results) - 1)),
                   results[Len(results)])

(* The ascending sort followed by a reversal: descending, but ties come    *)
(* out in the reverse of their upstream order.                             *)
SortThenReverse(results) ==
    LET asc == SortAscending(results)
    IN  [i \in 1..Len(asc) |-> asc[Len(asc) + 1 - i]]

(* results.sort(key=lambda x: x['importance'], reverse=True)               *)
RECURSIVE SortByImportance(_)
SortByImportance(results) ==
    IF results = <<>> THEN <<>>
    ELSE InsertDesc(SortByImportance(SubSeq(results, 1, Len(results) - 1)),
                    results[Len(results)])

(* The guard without its length test: `if not query`.                      *)
EmptyOnly(query) == query = <<>>

(* if not query or len(query) < 2                                          *)
TooShort(query) == query = <<>> \/ Len(query) < MinQueryLen

(* What `except requests.RequestException` would catch.                   *)
RequestExceptions == {"Timeout", "ConnectionError"}

(* The exception classes `except Exception` catches.                       *)
CaughtExceptions ==
    {"Timeout", "ConnectionError", "JSONDecodeError", "AttributeError",
     "TypeError", "ValueError"}

(* The try block: how it ends ("return", "raise", or "fallthrough" when    *)
(* the status is not 200), with the value returned or exception raised.    *)
TryBlock(query, limit, resp) ==
    IF resp.kind = "timeout"
    THEN [end |-> "raise", exc |-> "Timeout", value |-> <<>>]
    ELSE IF resp.kind = "connerr"
    THEN [end |-> "raise", exc |-> "ConnectionError", value |-> <<>>]
    ELSE IF resp.status = HttpOK
    THEN IF resp.body = "unparsable"
         THEN [end |-> "raise", exc |-> "JSONDecodeError", value |-> <<>>]
         ELSE IF resp.body = "object"
         THEN [end |-> "raise", exc |-> "AttributeError", value |-> <<>>]
         ELSE LET b == BuildResults(resp.data, <<>>)
              IN  IF ~b.ok
                  THEN [end |-> "raise", exc |-> b.exc, value |-> <<>>]
                  ELSE [end |-> "return", exc |-> "none",
                        value |-> SortByImportance(b.results)]
    ELSE [end |-> "fallthrough", exc |-> "none", value |-> <<>>]

(* The outcome of one execution of the function body: the value returned,  *)
(* the exception that escapes ("none" if none), the st.error messages      *)
(* shown, and the outbound requests made (their q and limit parameters).   *)
search_locations(query, limit, resp) ==
    IF TooShort(query)
    THEN [ret |-> <<>>, raised |-> "none", errors |-> <<>>, requests |-> <<>>]
    ELSE LET t == TryBlock(query, limit, resp)
             req == <<[q |-> query, limit |-> limit]>>
         IN  IF t.end = "return"
             THEN [ret |-> t.value, raised |-> "none", errors |-> <<>>,
                   requests |-> req]
             ELSE IF t.end = "raise"
             THEN IF t.exc \in CaughtExceptions
                  THEN [ret |-> <<>>, raised |-> "none",
                        errors |-> <<"Search error">>, requests |-> req]
                  ELSE [ret |-> <<>>, raised |-> t.exc, errors |-> <<>>,
                        requests |-> req]
             ELSE [ret |-> <<>>, raised |-> "none", errors |-> <<>>,
                   requests |-> req]

---------------------------------------------------------------------------
(* SpecSearch: search_locations applied to every input                     *)

NoCall == [query |-> <<>>, limit |-> DefaultLimit,
           resp |-> [kind |-> "timeout", status |-> 0, body |-> "none",
                     data |-> NoData]]

(* The call returns (or raises): its outcome is recorded.                  *)
CallSearch ==
    /\ out = <<>>
    /\ out' = <<search_locations(call.query, call.limit, call.resp)>>
    /\ UNCHANGED <<call, cacheVars, appVars, uiVars>>

NextSearch == CallSearch

---------------------------------------------------------------------------
(* SpecCache: search_locations behind @st.cache_data(ttl=300)              *)

(* The clock advances in steps of half the time to live, so that an entry  *)
(* is seen at ages below, equal to and above it; it advances between the   *)
(* script runs, a run being short against the step.                        *)
TickStep == TTL \div 2

(* The upstream outcomes drawn for calls through the cache.                *)
CacheItem == [BaseItem EXCEPT !.importance = RawNum(1)]

CacheResponses ==
    {r \in Responses :
        \/ r.kind = "timeout"
        \/ r.kind = "http" /\ r.status = 500
        \/ r.body = "list" /\ r.data = <<CacheItem>>}

(* The queries of calls through the cache: too short, and long enough.     *)
CacheQueries == {q \in Queries : Len(q) <= MinQueryLen}

(* The upstream of a call that made no request.                            *)
NoResponse == [kind |-> "none", status |-> 0, body |-> "none", data |-> NoData]

(* The cache key of a call: the function's arguments.                      *)
CacheKey(query, limit) == <<query, limit>>

(* The expiry test off by one: an entry of age TTL is still served.        *)
FreshThroughTTL(entry, time) == entry # <<>> /\ time - entry[1].at <= TTL

(* An entry is served while its age is below the time to live.             *)
IsFresh(entry, time) == entry # <<>> /\ time - entry[1].at < TTL

(* Whether an execution's outcome is stored: a raised exception is not.    *)
IsStored(o) == o.raised = "none"

Tick ==
    /\ uiPc = "idle"
    /\ now + TickStep <= MaxTicks * TickStep
    /\ now' = now + TickStep
    /\ UNCHANGED <<searchVars, searchCache, lastSearch, nCalls, appVars,
                   uiVars>>

(* One call of the decorated function, r being what the upstream answers   *)
(* if it is asked: served from the store on a fresh entry, else the body   *)
(* runs and its return value is stored with the current time.              *)
CallThroughCache(q, l, r) ==
    /\ nCalls < MaxCalls
    /\ nCalls' = nCalls + 1
    /\ LET k == CacheKey(q, l)
           e == searchCache[k]
       IN  IF IsFresh(e, now)
           THEN /\ lastSearch' = <<[query |-> q, limit |-> l, hit |-> TRUE,
                                    stale |-> FALSE, ret |-> e[1].val,
                                    requests |-> <<>>, errors |-> <<>>,
                                    raised |-> "none", upstream |-> NoResponse]>>
                /\ UNCHANGED searchCache
           ELSE LET o == search_locations(q, l, r)
                IN  /\ lastSearch' = <<[query |-> q, limit |-> l,
                                        hit |-> FALSE, stale |-> e # <<>>,
                                        ret |-> o.ret,
                                        requests |-> o.requests,
                                        errors |-> o.errors,
                                        raised |-> o.raised,
                                        upstream |-> r]>>
                    /\ searchCache' =
                          IF IsStored(o)
                          THEN [searchCache EXCEPT
                                  ![k] = <<[val |-> o.ret, at |-> now]>>]
                          ELSE [searchCache EXCEPT ![k] = <<>>]

(* A call of search_locations(q, l) from anywhere.                         *)
CachedSearch(q, l) ==
    /\ \E r \in CacheResponses : CallThroughCache(q, l, r)
    /\ UNCHANGED <<searchVars, now, appVars, uiVars>>

NextCache ==
    \/ Tick
    \/ \E q \in CacheQueries, l \in Limits : CachedSearch(q, l)

---------------------------------------------------------------------------
(* The script runs of one session: file upload and map generation          *)

(* What the st.file_uploader widget may hold: the extension of the name,   *)
(* whether a zip opens, whether geopandas can read the data, and how many  *)
(* .shp members the archive has at its top level and below it.             *)
NoFile == [ext |-> "none", opens |-> FALSE, reads |-> FALSE,
           shpTop |-> 0, shpNested |-> 0]

Files ==
    {[ext |-> "kml", opens |-> TRUE, reads |-> TRUE, shpTop |-> 0, shpNested |-> 0],
     [ext |-> "zip", opens |-> TRUE, reads |-> TRUE, shpTop |-> 1, shpNested |-> 0],
     [ext |-> "zip", opens |-> TRUE, reads |-> TRUE, shpTop |-> 0, shpNested |-> 0],
     [ext |-> "zip", opens |-> TRUE, reads |-> TRUE, shpTop |-> 0, shpNested |-> 1],
     [ext |-> "zip", opens |-> FALSE, reads |-> FALSE, shpTop |-> 0, shpNested |-> 0],
     [ext |-> "zip", opens |-> TRUE, reads |-> FALSE, shpTop |-> 1, shpNested |-> 0],
     [ext |-> "kml", opens |-> TRUE, reads |-> FALSE, shpTop |-> 0, shpNested |-> 0],
     [ext |-> "KML", opens |-> TRUE, reads |-> TRUE, shpTop |-> 0, shpNested |-> 0]}

NoGdf == <<>>

(* process_uploaded_file: the GeoDataFrame returned (NoGdf for None) and   *)
(* the messages it shows.                                                  *)
process_uploaded_file(f) ==
    IF f.ext = "kml"
    THEN IF f.reads
         THEN [gdf |-> <<"gdf_kml">>, shown |-> {}]
         ELSE [gdf |-> NoGdf, shown |-> {"error:processing_file"}]
    ELSE IF f.ext = "zip"
    THEN IF ~f.opens
         THEN [gdf |-> NoGdf, shown |-> {"error:processing_file"}]
         ELSE IF f.shpTop > 0
         THEN IF f.reads
              THEN [gdf |-> <<"gdf_shp">>, shown |-> {}]
              ELSE [gdf |-> NoGdf, shown |-> {"error:processing_file"}]
         ELSE [gdf |-> NoGdf, shown |-> {"error:no_shp_in_zip"}]
    ELSE IF f.ext = "shp"
    THEN [gdf |-> NoGdf, shown |-> {"warning:shp_needs_zip"}]
    ELSE [gdf |-> NoGdf, shown |-> {"error:unsupported_format"}]

(* The assignment without its guard: st.session_state.uploaded_gdf = gdf   *)
StoreAlways(current, gdf) == gdf

(* if gdf is not None: st.session_state.uploaded_gdf = gdf                 *)
StoreUploaded(current, gdf) == IF gdf # NoGdf THEN gdf ELSE current

(* The form's inputs.                                                      *)
Addresses == {"", "qqqq", "Macau", "Macao"}
Radii == {MinRadius, MaxRadius}
Shapes == {"circle", "rectangle"}

(* The place the geocoding service knows for an address ("" for none).     *)
PlaceOf(addr) == IF addr \in {"Macau", "Macao"} THEN "Macau peninsula" ELSE ""

Places == {PlaceOf(a) : a \in Addresses} \ {""}

AOIs == [center : Places, radius : Radii, rectangular : BOOLEAN]

(* What the geocoding service may answer for an address: the place it      *)
(* knows, or nothing (no match, or a timeout).                             *)
GeocoderAnswers(addr) ==
    IF PlaceOf(addr) # "" THEN {PlaceOf(addr), ""} ELSE {""}

(* get_aoi(address, radius, rectangular), given the geocoder's answer      *)
get_aoi(addr, rad, rect, place) ==
    IF place = ""
    THEN [ok |-> FALSE, exc |-> "GeoCodingError", aoi |-> <<>>]
    ELSE [ok |-> TRUE, exc |-> "none",
          aoi |-> <<[center |-> place, radius |-> rad, rectangular |-> rect]>>]

(* rectangular = shape != "circle"                                         *)
Rectangular(shp) == shp # "circle"

(* What the geodata source may answer for an AOI: a version of its         *)
(* geometries, or a failure (0).                                           *)
GeomVersions == 1..MaxGeomVersions
FetchAnswers == GeomVersions \cup {0}

(* The geometry cache never serves an entry (it keys on object identity).  *)
NeverCached(cache, a) == <<>>

(* The geometry cache's lookup: keyed by the AOI's structure, no expiry.   *)
GeomLookup(cache, a) == cache[a]

(* st_get_osm_geometries(aoi), given the geodata source's answer: the      *)
(* collection returned, the exception raised, the store afterwards and the *)
(* number of upstream fetches made. A hit makes no fetch; a fetched        *)
(* collection is stored; a failed fetch raises and stores nothing.         *)
st_get_osm_geometries(cache, a, answer) ==
    LET e == GeomLookup(cache, a)
    IN  IF e # <<>>
        THEN [df |-> e, exc |-> "none", cache |-> cache, fetched |-> 0]
        ELSE IF answer # 0
        THEN [df |-> <<answer>>, exc |-> "none",
              cache |-> [cache EXCEPT ![a] = <<answer>>], fetched |-> 1]
        ELSE [df |-> <<>>, exc |-> "UpstreamError", cache |-> cache,
              fetched |-> 1]

(* `except Exception` in place of `except GeoCodingError`.                 *)
CatchesEverything(exc) == TRUE

(* `except ValueError` in place of `except GeoCodingError`.                *)
CatchesValueError(exc) == exc = "ValueError"

(* except GeoCodingError as e                                              *)
HandlerCatches(exc) == exc = "GeoCodingError"

(* The values a run holds when it has read nothing yet.                    *)
FreshRun ==
    /\ pipeline' = "Idle"
    /\ aoi' = <<>>
    /\ df' = <<>>
    /\ messages' = {}
    /\ raisedIn' = "none"
    /\ uncaught' = "none"
    /\ geomCalls' = 0
    /\ fetches' = 0
    /\ renders' = 0

UnreadForm ==
    /\ address' = ""
    /\ radius' = MinRadius
    /\ shape' = "circle"

(* The user puts a file into the uploader, replaces it or removes it: the  *)
(* script runs again.                                                      *)
UserUploads(f) ==
    /\ pc = "idle"
    /\ f # uploaded_file
    /\ uploaded_file' = f
    /\ submit_button' = FALSE
    /\ pc' = "upload"
    /\ UNCHANGED <<formVars, sessionVars, runVars, searchVars, cacheVars, uiVars>>

(* The user ticks or unticks "Use uploaded file boundaries", which is      *)
(* shown while an uploaded geometry is stored.                             *)
UserTogglesUseUploaded ==
    /\ pc = "idle"
    /\ uploaded_gdf # NoGdf
    /\ use_uploaded_file' = ~use_uploaded_file
    /\ submit_button' = FALSE
    /\ pc' = "upload"
    /\ UNCHANGED <<uploaded_file, formVars, uploaded_gdf, geomCache, returned,
                   runVars, searchVars, cacheVars, uiVars>>

(* The user submits the form with its address, radius and shape.           *)
UserSubmits(addr, rad, shp) ==
    /\ pc = "idle"
    /\ address' = addr
    /\ radius' = rad
    /\ shape' = shp
    /\ submit_button' = TRUE
    /\ pc' = "upload"
    /\ UNCHANGED <<uploaded_file, sessionVars, runVars, searchVars, cacheVars, uiVars>>

(* The script run is over (its last line, or the exception that left it):  *)
(* its locals are gone, the session state and the widgets stay.            *)
EndRun ==
    /\ pc = "done"
    /\ pc' = "idle"
    /\ submit_button' = FALSE
    /\ FreshRun
    /\ UnreadForm
    /\ UNCHANGED <<uploaded_file, sessionVars, searchVars, cacheVars, uiVars>>

(* The file upload section.                                                *)
UploadSection ==
    /\ pc = "upload"
    /\ IF uploaded_file # NoFile
       THEN LET r == process_uploaded_file(uploaded_file)
            IN  /\ uploaded_gdf' = StoreUploaded(uploaded_gdf, r.gdf)
                /\ messages' = messages \cup r.shown \cup
                      (IF r.gdf # NoGdf
                       THEN {"success:file_processed", "info:boundaries_used"}
                       ELSE {})
       ELSE UNCHANGED <<uploaded_gdf, messages>>
    /\ pc' = "generate"
    /\ UNCHANGED <<widgetVars, formVars, use_uploaded_file, geomCache, returned,
                   pipeline, aoi, df, raisedIn, uncaught, geomCalls, fetches,
                   renders, searchVars, cacheVars, uiVars>>

(* if submit_button: the branch of the map generation that is taken.       *)
GenerateSection ==
    /\ pc = "generate"
    /\ IF ~submit_button
       THEN /\ pc' = "done"
            /\ UNCHANGED <<pipeline, messages>>
       ELSE IF use_uploaded_file /\ uploaded_gdf # NoGdf
       THEN /\ pc' = "plot_uploaded"
            /\ UNCHANGED <<pipeline, messages>>
       ELSE IF address # ""
       THEN /\ pc' = "resolving"
            /\ pipeline' = "ResolvingAOI"
            /\ UNCHANGED messages
       ELSE /\ pc' = "done"
            /\ messages' = messages \cup {"warning:no_location"}
            /\ UNCHANGED pipeline
    /\ UNCHANGED <<widgetVars, formVars, sessionVars, aoi, df, raisedIn, uncaught,
                   geomCalls, fetches, renders, searchVars, cacheVars, uiVars>>

(* The upload branch: st_plot_all on the uploaded geometries, inside       *)
(* try ... except Exception.                                               *)
PlotUploaded ==
    /\ pc = "plot_uploaded"
    /\ renders' = renders + 1
    /\ \E plotted \in BOOLEAN :
          IF plotted
          THEN /\ messages' = messages \cup {"figure", "success:map_from_upload"}
               /\ UNCHANGED raisedIn
          ELSE /\ messages' = messages \cup {"error:map_from_upload"}
               /\ raisedIn' = "st_plot_all"
    /\ pc' = "done"
    /\ UNCHANGED <<widgetVars, formVars, sessionVars, pipeline, aoi, df, uncaught,
                   geomCalls, fetches, searchVars, cacheVars, uiVars>>

(* An exception raised inside the address branch's try block: the handler  *)
(* shows the location error, or the exception leaves the script and the    *)
(* framework shows it. Either way the run ends.                            *)
Raise(exc, where) ==
    /\ raisedIn' = where
    /\ pipeline' = IF where = "st_plot_all" THEN pipeline ELSE "Failed"
    /\ IF HandlerCatches(exc)
       THEN /\ messages' = messages \cup {"error:location"}
            /\ UNCHANGED uncaught
       ELSE /\ messages' = messages \cup {"exception"}
            /\ uncaught' = exc
    /\ pc' = "done"

(* The try block with its two calls swapped around the plot: st_plot_all   *)
(* right after get_aoi.                                                    *)
PlotAfterGetAoi == "rendering"

(* The statement of the try block that follows get_aoi: the geometry fetch *)
AfterGetAoi == "fetching"

(* aoi = get_aoi(address=address, radius=radius, rectangular=rectangular)  *)
ResolveAOI ==
    /\ pc = "resolving"
    /\ \E place \in GeocoderAnswers(address) :
          LET r == get_aoi(address, radius, Rectangular(shape), place)
          IN  IF r.ok
              THEN /\ aoi' = r.aoi
                   /\ pipeline' = "FetchingGeometry"
                   /\ pc' = AfterGetAoi
                   /\ UNCHANGED <<messages, raisedIn, uncaught>>
              ELSE /\ Raise(r.exc, "get_aoi")
                   /\ UNCHANGED aoi
    /\ UNCHANGED <<widgetVars, formVars, sessionVars, df, geomCalls, fetches, renders,
                   searchVars, cacheVars, uiVars>>

(* df = st_get_osm_geometries(aoi=aoi): on success the request is Ready    *)
(* and goes on to render; an exception ends it.                            *)
FetchGeometry ==
    /\ pc = "fetching"
    /\ geomCalls' = geomCalls + 1
    /\ \E answer \in FetchAnswers :
          LET r == st_get_osm_geometries(geomCache, aoi[1], answer)
          IN  /\ fetches' = fetches + r.fetched
              /\ geomCache' = r.cache
              /\ IF r.exc = "none"
                 THEN /\ df' = r.df
                      /\ returned' = [returned EXCEPT ![aoi[1]] = @ \cup {r.df[1]}]
                      /\ pipeline' = "Ready"
                      /\ pc' = "rendering"
                      /\ UNCHANGED <<messages, raisedIn, uncaught>>
                 ELSE /\ Raise(r.exc, "st_get_osm_geometries")
                      /\ UNCHANGED <<df, returned>>
    /\ UNCHANGED <<widgetVars, formVars, uploaded_gdf, use_uploaded_file, aoi,
                   renders,
                   searchVars, cacheVars, uiVars>>

(* fig = st_plot_all(_df=df, **config); st.pyplot(fig, ...)                *)
Render ==
    /\ pc = "rendering"
    /\ renders' = renders + 1
    /\ \E plotted \in BOOLEAN :
          IF plotted
          THEN /\ messages' = messages \cup {"figure", "success:map_ready"}
               /\ pc' = "done"
               /\ UNCHANGED <<pipeline, raisedIn, uncaught>>
          ELSE Raise("PlotError", "st_plot_all")
    /\ UNCHANGED <<widgetVars, formVars, sessionVars, aoi, df, geomCalls, fetches,
                   searchVars, cacheVars, uiVars>>

Next ==
    \/ \E f \in Files \cup {NoFile} : UserUploads(f)
    \/ UserTogglesUseUploaded
    \/ \E addr \in Addresses, rad \in Radii, shp \in Shapes :
          UserSubmits(addr, rad, shp)
    \/ UploadSection
    \/ GenerateSection
    \/ PlotUploaded
    \/ ResolveAOI
    \/ FetchGeometry
    \/ Render
    \/ EndRun

---------------------------------------------------------------------------
(* SpecUI: the location search section of the script                       *)

(* The interaction that starts a script run: the first load of the page,   *)
(* an edit of the search box, a click on the index-th result button, the   *)
(* choice of an area in the quick-search dropdown, or st.rerun().          *)
NoEvent == [kind |-> "none", index |-> 0, area |-> NoText]
FirstLoad == [kind |-> "first", index |-> 0, area |-> NoText]
Edit == [kind |-> "edit", index |-> 0, area |-> NoText]
Click(i) == [kind |-> "click", index |-> i, area |-> NoText]
Select(a) == [kind |-> "select", index |-> 0, area |-> a]
Rerun == [kind |-> "rerun", index |-> 0, area |-> NoText]

(* The place the upstream knows, and an entry of POPULAR_AREAS.            *)
PlaceUrFull == <<"U", "r", " ", "Q">>
AreaRome == <<"R", "o", "m", "e">>
PopularAreas == {AreaRome}

UIItem == [BaseItem EXCEPT !.name = NameUr, !.display_name = PlaceUrFull,
                           !.address = [NoAddress EXCEPT !.country = CountryQ],
                           !.importance = RawNum(1)]

(* The upstream outcomes drawn for the searches of the page: a failure,    *)
(* or the place.                                                           *)
UIResponses ==
    {[kind |-> "timeout", status |-> 0, body |-> "none", data |-> NoData],
     [kind |-> "http", status |-> HttpOK, body |-> "list", data |-> <<UIItem>>]}

(* The texts the search box may hold.                                      *)
UITexts == Queries \cup {PlaceUrFull, AreaRome}

(* The address of the example the session starts with (examples.json).     *)
ExampleAddresses == {NoText, AreaRome}

(* The trigger with the threshold of the first test: 2 characters.         *)
SearchesFromTwo(text) == Len(text) >= MinQueryLen

(* search_query != st.session_state.search_query and len(search_query) >= 2 *)
TextChanged(text, recorded) == text # recorded /\ Len(text) >= MinQueryLen

(* if len(search_query) >= 3                                               *)
LongEnoughToSearch(text) == Len(text) >= AutoSearchLen

(* if st.session_state.search_results and len(search_query) >= 2           *)
Displayed(results, text) == results # <<>> /\ Len(text) >= MinQueryLen

(* The user changes the text of the search box: the script runs.           *)
UserEditsSearch(t) ==
    /\ uiPc = "idle"
    /\ t # location_search
    /\ location_search' = t
    /\ event' = Edit
    /\ uiPc' = "search"
    /\ UNCHANGED <<search_query, search_results, session_address,
                   selected_area, searchVars, cacheVars, appVars>>

(* The user clicks the button of a displayed result: the script runs.      *)
UserClicksResult(i) ==
    /\ uiPc = "idle"
    /\ Displayed(search_results, location_search)
    /\ i \in 1..Len(search_results)
    /\ event' = Click(i)
    /\ uiPc' = "search"
    /\ UNCHANGED <<location_search, search_query, search_results,
                   session_address, selected_area, searchVars, cacheVars,
                   appVars>>

(* The user picks another area in the quick-search dropdown.               *)
UserSelectsArea(a) ==
    /\ uiPc = "idle"
    /\ a # selected_area
    /\ event' = Select(a)
    /\ uiPc' = "search"
    /\ UNCHANGED <<location_search, search_query, search_results,
                   session_address, selected_area, searchVars, cacheVars,
                   appVars>>

(* The search step of a run: the text is recorded and searched for, or the *)
(* results are reset, or nothing happens.                                  *)
SearchSection ==
    /\ uiPc = "search"
    /\ IF TextChanged(location_search, search_query)
       THEN /\ search_query' = location_search
            /\ IF LongEnoughToSearch(location_search)
               THEN \E r \in UIResponses :
                       /\ CallThroughCache(location_search, DefaultLimit, r)
                       /\ search_results' = lastSearch'[1].ret
               ELSE UNCHANGED <<search_results, searchCache, lastSearch,
                                nCalls>>
       ELSE IF Len(location_search) < MinQueryLen
       THEN /\ search_results' = <<>>
            /\ search_query' = location_search
            /\ UNCHANGED <<searchCache, lastSearch, nCalls>>
       ELSE UNCHANGED <<search_query, search_results, searchCache,
                        lastSearch, nCalls>>
    /\ uiPc' = "display"
    /\ UNCHANGED <<event, location_search, session_address, selected_area,
                   now, searchVars, appVars>>

(* st.rerun() after the address was set: the script starts again; the      *)
(* search box, whose value argument is the address, keeps its text or      *)
(* takes the address, as the framework's widget identity decides.          *)
StartRerun(addr) ==
    /\ uiPc' = "search"
    /\ event' = Rerun
    /\ location_search' \in {location_search, addr}

(* The rest of the run: the result buttons, then the quick-search          *)
(* dropdown; a clicked result or a newly chosen area becomes the address   *)
(* and the recorded query, and the script is run again.                    *)
DisplaySection ==
    /\ uiPc = "display"
    /\ IF /\ event.kind = "click"
          /\ Displayed(search_results, location_search)
          /\ event.index <= Len(search_results)
       THEN LET full == search_results[event.index].full_address
            IN  /\ session_address' = full
                /\ search_query' = full
                /\ StartRerun(full)
                /\ UNCHANGED selected_area
       ELSE IF event.kind = "select" /\ event.area # selected_area
       THEN /\ session_address' = event.area
            /\ search_query' = event.area
            /\ selected_area' = event.area
            /\ StartRerun(event.area)
       ELSE /\ uiPc' = "idle"
            /\ event' = NoEvent
            /\ UNCHANGED <<location_search, search_query, session_address,
                           selected_area>>
    /\ UNCHANGED <<search_results, searchVars, cacheVars, appVars>>

NextUI ==
    \/ \E t \in UITexts : UserEditsSearch(t)
    \/ \E i \in 1..MaxItems : UserClicksResult(i)
    \/ \E a \in PopularAreas : UserSelectsArea(a)
    \/ SearchSection
    \/ DisplaySection
    \/ Tick

---------------------------------------------------------------------------
(* A session that has just started: no script run yet, empty caches.       *)
Init ==
    /\ call = NoCall
    /\ out = <<>>
    /\ now = 0
    /\ searchCache = [k \in Queries \X Limits |-> <<>>]
    /\ lastSearch = <<>>
    /\ nCalls = 0
    /\ pc = "idle"
    /\ uploaded_file = NoFile
    /\ submit_button = FALSE
    /\ address = ""
    /\ radius = MinRadius
    /\ shape = "circle"
    /\ uploaded_gdf = NoGdf
    /\ use_uploaded_file = FALSE
    /\ geomCache = [a \in AOIs |-> <<>>]
    /\ returned = [a \in AOIs |-> {}]
    /\ pipeline = "Idle"
    /\ aoi = <<>>
    /\ df = <<>>
    /\ messages = {}
    /\ raisedIn = "none"
    /\ uncaught = "none"
    /\ geomCalls = 0
    /\ fetches = 0
    /\ renders = 0
    /\ uiPc = "idle"
    /\ event = NoEvent
    /\ location_search = NoText
    /\ search_query = NoText
    /\ search_results = <<>>
    /\ session_address = NoText
    /\ selected_area = NoText

(* The same session, seen by the calls through the search cache.           *)
InitCache ==
    /\ call = NoCall
    /\ out = <<>>
    /\ now = 0
    /\ searchCache = [k \in Queries \X Limits |-> <<>>]
    /\ lastSearch = <<>>
    /\ nCalls = 0
    /\ pc = "idle"
    /\ uploaded_file = NoFile
    /\ submit_button = FALSE
    /\ address = ""
    /\ radius = MinRadius
    /\ shape = "circle"
    /\ uploaded_gdf = NoGdf
    /\ use_uploaded_file = FALSE
    /\ geomCache = [a \in AOIs |-> <<>>]
    /\ returned = [a \in AOIs |-> {}]
    /\ pipeline = "Idle"
    /\ aoi = <<>>
    /\ df = <<>>
    /\ messages = {}
    /\ raisedIn = "none"
    /\ uncaught = "none"
    /\ geomCalls = 0
    /\ fetches = 0
    /\ renders = 0
    /\ uiPc = "idle"
    /\ event = NoEvent
    /\ location_search = NoText
    /\ search_query = NoText
    /\ search_results = <<>>
    /\ session_address = NoText
    /\ selected_area = NoText

(* A direct call of search_locations about to be made, for every query,    *)
(* limit and upstream outcome.                                             *)
InitSearch ==
    /\ call \in [query : Queries, limit : Limits, resp : Responses]
    /\ out = <<>>
    /\ now = 0
    /\ searchCache = [k \in Queries \X Limits |-> <<>>]
    /\ lastSearch = <<>>
    /\ nCalls = 0
    /\ pc = "idle"
    /\ uploaded_file = NoFile
    /\ submit_button = FALSE
    /\ address = ""
    /\ radius = MinRadius
    /\ shape = "circle"
    /\ uploaded_gdf = NoGdf
    /\ use_uploaded_file = FALSE
    /\ geomCache = [a \in AOIs |-> <<>>]
    /\ returned = [a \in AOIs |-> {}]
    /\ pipeline = "Idle"
    /\ aoi = <<>>
    /\ df = <<>>
    /\ messages = {}
    /\ raisedIn = "none"
    /\ uncaught = "none"
    /\ geomCalls = 0
    /\ fetches = 0
    /\ renders = 0
    /\ uiPc = "idle"
    /\ event = NoEvent
    /\ location_search = NoText
    /\ search_query = NoText
    /\ search_results = <<>>
    /\ session_address = NoText
    /\ selected_area = NoText

(* The first load of the page: the search box starts with the example's    *)
(* address and the script is about to run.                                 *)
InitUI ==
    /\ call = NoCall
    /\ out = <<>>
    /\ now = 0
    /\ searchCache = [k \in UITexts \X {DefaultLimit} |-> <<>>]
    /\ lastSearch = <<>>
    /\ nCalls = 0
    /\ pc = "idle"
    /\ uploaded_file = NoFile
    /\ submit_button = FALSE
    /\ address = ""
    /\ radius = MinRadius
    /\ shape = "circle"
    /\ uploaded_gdf = NoGdf
    /\ use_uploaded_file = FALSE
    /\ geomCache = [a \in AOIs |-> <<>>]
    /\ returned = [a \in AOIs |-> {}]
    /\ pipeline = "Idle"
    /\ aoi = <<>>
    /\ df = <<>>
    /\ messages = {}
    /\ raisedIn = "none"
    /\ uncaught = "none"
    /\ geomCalls = 0
    /\ fetches = 0
    /\ renders = 0
    /\ uiPc = "search"
    /\ event = FirstLoad
    /\ session_address \in ExampleAddresses
    /\ location_search = session_address
    /\ search_query = NoText
    /\ search_results = <<>>
    /\ selected_area = NoText

---------------------------------------------------------------------------
(* Specifications                                                          *)

SpecUI == InitUI /\ [][NextUI]_vars

SpecSearch == InitSearch /\ [][NextSearch]_vars

SpecCache == InitCache /\ [][NextCache]_vars

Spec == Init /\ [][Next]_vars

---------------------------------------------------------------------------
(* Properties of search_locations (SpecSearch)                             *)

Called == out # <<>>

(* Some item of the response has a lat, lon or importance that float()     *)
(* rejects.                                                                *)
HasNonNumericItem(resp) ==
    \E i \in 1..Len(resp.data) :
        \E f \in {"lat", "lon", "importance"} :
            resp.data[i][f].t \in {"text", "null"}

(* The upstream did not deliver a usable result list.                      *)
UpstreamFailed(resp) ==
    \/ resp.kind # "http"
    \/ resp.status # 200
    \/ resp.body # "list"
    \/ HasNonNumericItem(resp)

(* The numeric value an upstream importance denotes, a missing one being 0 *)
ImportanceOf(raw) == IF raw.t = "absent" THEN 0 ELSE raw.v

(* C1: for a query that is empty or shorter than 2 characters, and any     *)
(* limit, search_locations returns the empty sequence, raises nothing and  *)
(* makes no outbound request.                                              *)
C1_ShortQueryNoRequest ==
    (Called /\ (call.query = <<>> \/ Len(call.query) < 2)) =>
        /\ out[1].ret = <<>>
        /\ out[1].requests = <<>>
        /\ out[1].raised = "none"

(* C1 witness: a one-character query was answered, with an upstream that   *)
(* would have delivered results had it been asked.                         *)
C1_Witness ==
    /\ Called
    /\ Len(call.query) = 1
    /\ call.limit = 1
    /\ call.resp.body = "list" /\ Len(call.resp.data) = 2
    /\ ~HasNonNumericItem(call.resp)
    /\ out[1].ret = <<>>

(* C3 as stated: for a query of at least 2 characters and any upstream     *)
(* outcome, search_locations never raises, and on every failure (timeout,  *)
(* connection error, non-200 status, unparsable body, non-numeric item)    *)
(* it reports the failure and returns the empty sequence.                  *)
C3_Original ==
    (Called /\ Len(call.query) >= 2) =>
        /\ out[1].raised = "none"
        /\ UpstreamFailed(call.resp) =>
              (out[1].ret = <<>> /\ out[1].errors # <<>>)

(* C3 amended: for a query of at least 2 characters search_locations never *)
(* raises and returns the empty sequence on every failure; the failure is  *)
(* reported exactly when it is an exception (timeout, connection error,    *)
(* unparsable body, non-numeric item): a non-200 status is answered with   *)
(* the empty sequence and no report.                                       *)
C3_NeverRaisesReportsExceptions ==
    (Called /\ Len(call.query) >= 2) =>
        /\ out[1].raised = "none"
        /\ UpstreamFailed(call.resp) => out[1].ret = <<>>
        /\ out[1].errors # <<>> <=>
              (UpstreamFailed(call.resp)
                 /\ ~(call.resp.kind = "http" /\ call.resp.status # 200))

(* C3 witness: a response whose second item has a non-numeric importance   *)
(* was swallowed: reported, and answered with the empty sequence.          *)
C3_Witness ==
    /\ Called
    /\ Len(call.query) >= 2
    /\ call.resp.body = "list" /\ Len(call.resp.data) = 2
    /\ call.resp.data[1].importance.t = "num"
    /\ call.resp.data[2].importance.t = "text"
    /\ out[1].errors # <<>>
    /\ out[1].ret = <<>>
    /\ out[1].raised = "none"

(* C4: on a successful response the results are in non-increasing order of *)
(* importance, and they carry the importances of the upstream items, a     *)
(* missing importance counting as 0.                                       *)
C4_SortedByImportance ==
    Called =>
        LET ret == out[1].ret
            data == call.resp.data
        IN  /\ \A i \in 1..(Len(ret) - 1) :
                  ret[i].importance >= ret[i + 1].importance
            /\ (Len(call.query) >= 2 /\ ~UpstreamFailed(call.resp)) =>
                  \A v \in 0..MaxImp :
                      Cardinality({i \in 1..Len(ret) : ret[i].importance = v})
                        = Cardinality({i \in 1..Len(data) :
                                         ImportanceOf(data[i].importance) = v})

(* C4 witness: the upstream sent a missing importance first and larger     *)
(* ones after it, and the results came back reordered.                     *)
C4_Witness ==
    /\ Called
    /\ Len(call.query) >= 2
    /\ ~UpstreamFailed(call.resp)
    /\ Len(call.resp.data) = 3
    /\ call.resp.data[1].importance.t = "absent"
    /\ call.resp.data[2].importance = RawNum(1)
    /\ call.resp.data[3].importance = RawNum(2)
    /\ Len(out[1].ret) = 3
    /\ out[1].ret[1].importance = 2
    /\ out[1].ret[3].importance = 0

(* C10 as stated: whatever the upstream response contains, the number of   *)
(* results returned is at most limit.                                      *)
C10_AtMostLimit ==
    Called => Len(out[1].ret) <= call.limit

(* The one-to-one assignments of result positions to upstream positions.   *)
Perms(n) ==
    {p \in [1..n -> 1..n] : \A i, j \in 1..n : i # j => p[i] # p[j]}

(* C13: on a successful response, results of equal importance keep their   *)
(* upstream order: the results are the upstream items rearranged so that,  *)
(* of two results with the same importance, the one that came earlier in   *)
(* the response comes earlier in the returned sequence.                    *)
C13_TiesKeepUpstreamOrder ==
    (Called /\ Len(call.query) >= 2 /\ ~UpstreamFailed(call.resp)) =>
        LET ret == out[1].ret
            data == call.resp.data
        IN  /\ Len(ret) = Len(data)
            /\ \E p \in Perms(Len(data)) :
                  /\ \A k \in 1..Len(ret) :
                        /\ ret[k].full_address = data[p[k]].display_name
                        /\ ret[k].importance
                              = ImportanceOf(data[p[k]].importance)
                  /\ \A k, l \in 1..Len(ret) :
                        (k < l /\ ret[k].importance = ret[l].importance)
                            => p[k] < p[l]

(* C13 witness: the response held D2 and D1 with importance 1, in that     *)
(* order, around an item of importance 2; D2 came back before D1.          *)
C13_Witness ==
    /\ Called
    /\ Len(call.query) >= 2
    /\ ~UpstreamFailed(call.resp)
    /\ Len(call.resp.data) = 3
    /\ call.resp.data[1].display_name = DisplayD2
    /\ call.resp.data[1].importance = RawNum(1)
    /\ call.resp.data[2].importance = RawNum(2)
    /\ call.resp.data[3].display_name = DisplayD1
    /\ call.resp.data[3].importance = RawNum(1)
    /\ out[1].ret[1].importance = 2
    /\ out[1].ret[2].full_address = DisplayD2
    /\ out[1].ret[3].full_address = DisplayD1

(* The texts of a sequence that are not empty, in order.                   *)
Supplied(texts) == SelectSeq(texts, LAMBDA t : t # <<>>)

(* Every upstream item has a result that carries its display_name as the   *)
(* full address and Label(item) as the display label.                      *)
EveryItemLabelled(Label(_)) ==
    LET ret == out[1].ret
        data == call.resp.data
    IN  /\ Len(ret) = Len(data)
        /\ \A i \in 1..Len(data) :
              \E k \in 1..Len(ret) :
                  /\ ret[k].full_address = data[i].display_name
                  /\ ret[k].display_name = Label(data[i])

(* The label as the claim words it: name, city or town, and country, each  *)
(* when supplied, joined by commas; the full display name when none is.    *)
LabelAsStated(item) ==
    LET cityTown == IF item.address.city # <<>> THEN item.address.city
                    ELSE item.address.town
        parts == Supplied(<<item.name, cityTown, item.address.country>>)
    IN  IF parts = <<>> THEN item.display_name ELSE Join(parts)

(* The label as amended: the locality is the first supplied of city, town, *)
(* village and municipality and is left out when it equals the name; a     *)
(* label of more than 70 characters is its first 67 followed by "...".     *)
LabelAsAmended(item) ==
    LET a == item.address
        localities == Supplied(<<a.city, a.town, a.village, a.municipality>>)
        locality == IF localities = <<>> \/ localities[1] = item.name
                    THEN <<>> ELSE localities[1]
        parts == Supplied(<<item.name, locality, a.country>>)
        whole == IF parts = <<>> THEN item.display_name ELSE Join(parts)
    IN  IF Len(whole) <= 70 THEN whole
        ELSE [i \in 1..70 |-> IF i <= 67 THEN whole[i] ELSE "."]

(* C14 as stated: for every upstream item the result's display label is    *)
(* the name, the city/town and the country joined by commas, each part     *)
(* present when the upstream supplies it, and the upstream's full display  *)
(* name exactly when none of these fields is present.                      *)
C14_Original ==
    (Called /\ Len(call.query) >= 2 /\ ~UpstreamFailed(call.resp)) =>
        EveryItemLabelled(LabelAsStated)

(* C14 amended: for every upstream item the result's display label is the  *)
(* name, the locality (the first supplied of city, town, village and       *)
(* municipality, left out when equal to the name) and the country, the     *)
(* supplied ones joined by ", "; it is the upstream's full display name    *)
(* when none of these parts is there; and a label longer than 70           *)
(* characters is cut to its first 67 characters followed by "...".         *)
C14_LabelConstruction ==
    (Called /\ Len(call.query) >= 2 /\ ~UpstreamFailed(call.resp)) =>
        EveryItemLabelled(LabelAsAmended)

(* C14 witness: an item with a 67-character name, no city or town, a       *)
(* village and a country came back with the cut label, its display_name    *)
(* kept as the full address.                                               *)
C14_Witness ==
    /\ Called
    /\ Len(call.query) >= 2
    /\ call.resp.body = "list" /\ Len(call.resp.data) = 1
    /\ call.resp.data[1].name = LongName
    /\ call.resp.data[1].address.city = <<>>
    /\ call.resp.data[1].address.town = <<>>
    /\ call.resp.data[1].address.village = VillageEe
    /\ call.resp.data[1].address.country = CountryQ
    /\ call.resp.data[1].display_name = DisplayD2
    /\ Len(out[1].ret) = 1
    /\ out[1].ret[1].display_name = LongName \o <<".", ".", ".">>
    /\ out[1].ret[1].full_address = DisplayD2

---------------------------------------------------------------------------
(* Properties of the cached search (SpecCache)                             *)

(* The upstream outcomes that are failed fetches.                          *)
FailedFetch(c) ==
    /\ ~c.hit
    /\ c.requests # <<>>
    /\ UpstreamFailed(c.upstream)

(* C2 as stated: a failed fetch is not cached: after a call for q whose    *)
(* upstream request failed, the store holds no entry for q.                *)
C2_FailedFetchNotCached ==
    (lastSearch # <<>> /\ FailedFetch(lastSearch[1])) =>
        searchCache[<<lastSearch[1].query, lastSearch[1].limit>>] = <<>>

(* C5: a call is answered from the store, with no upstream request,        *)
(* exactly when the store holds an entry for its arguments that is less    *)
(* than 300 seconds old; otherwise the body runs (with an upstream request *)
(* when the query has at least 2 characters) and what it returns is stored *)
(* with the current time.                                                  *)
C5_HitExpiryRule ==
    [][nCalls' = nCalls + 1 =>
        LET c == lastSearch'[1]
            k == <<c.query, c.limit>>
            e == searchCache[k]
            fresh == e # <<>> /\ now - e[1].at < 300
        IN  /\ c.hit <=> fresh
            /\ c.hit => /\ c.requests = <<>>
                        /\ c.ret = e[1].val
                        /\ searchCache' = searchCache
            /\ ~c.hit => /\ Len(c.query) >= 2 => c.requests # <<>>
                         /\ searchCache'[k] = <<[val |-> c.ret, at |-> now]>>
                         /\ \A j \in DOMAIN searchCache :
                               j # k => searchCache'[j] = searchCache[j]
      ]_vars

(* C5 witness: an entry exactly 300 seconds old was treated as a miss: the *)
(* upstream was asked again and the result stored with the current time.   *)
C5_Witness ==
    /\ lastSearch # <<>>
    /\ lastSearch[1].stale
    /\ ~lastSearch[1].hit
    /\ lastSearch[1].requests # <<>>
    /\ now = 300
    /\ searchCache[<<lastSearch[1].query, lastSearch[1].limit>>]
         = <<[val |-> lastSearch[1].ret, at |-> now]>>

---------------------------------------------------------------------------
(* Properties of the script runs (Spec)                                    *)

(* C6: once the geometry cache has returned a GeometryCollection for an    *)
(* AOI, every later request for a structurally equal AOI (same center,     *)
(* radius and shape) returns that same collection and makes no upstream    *)
(* fetch, whatever requests came in between.                               *)
C6_GeometryCacheIdempotent ==
    [][/\ (pc = "fetching" /\ returned[aoi[1]] # {}) =>
            /\ fetches' = fetches
            /\ pc' = "rendering"
            /\ df' # <<>>
            /\ returned[aoi[1]] = {df'[1]}
       /\ \A a \in AOIs : Cardinality(returned'[a]) <= 1
      ]_vars

(* C6 witness: a request was served from the cache without a fetch while   *)
(* the cache also holds another AOI's collection of a different version.   *)
C6_Witness ==
    /\ pc = "rendering"
    /\ geomCalls = 1
    /\ fetches = 0
    /\ df # <<>>
    /\ \E b \in AOIs : b # aoi[1] /\ geomCache[b] # <<>> /\ geomCache[b] # df

(* C7: when get_aoi raises GeoCodingError in an address-based request, the *)
(* request ends Failed with the location error shown, and neither the      *)
(* geometry fetch nor the rendering is attempted.                          *)
C7_GeocodingFailureEndsRequest ==
    raisedIn = "get_aoi" =>
        /\ pipeline = "Failed"
        /\ pc = "done"
        /\ "error:location" \in messages
        /\ "figure" \notin messages
        /\ uncaught = "none"
        /\ geomCalls = 0
        /\ fetches = 0
        /\ renders = 0

(* C7 witness: the geocoder did not resolve a known address in a session   *)
(* whose geometry cache already holds that address's AOI.                  *)
C7_Witness ==
    /\ raisedIn = "get_aoi"
    /\ address = "Macau"
    /\ \E a \in AOIs : geomCache[a] # <<>>

(* C8: a failure of the geometry fetch is not retried and not replaced by  *)
(* an empty result: the fetch is called once, the exception leaves the     *)
(* request and is shown to the user, nothing is rendered, and the session  *)
(* (its stored state, and its ability to run again) is kept.               *)
C8_FetchFailurePropagates ==
    [][/\ geomCalls' <= 1 /\ fetches' <= 1
       /\ (raisedIn' = "st_get_osm_geometries" /\ pc = "fetching") =>
            /\ pipeline' = "Failed"
            /\ geomCalls' = 1
            /\ fetches' = 1
            /\ renders' = 0
            /\ df' = <<>>
            /\ uncaught' = "UpstreamError"
            /\ "exception" \in messages'
            /\ "figure" \notin messages'
            /\ pc' = "done"
            /\ UNCHANGED sessionVars
      ]_vars

(* C8 witness: a fetch failed in a session that holds an uploaded geometry *)
(* and a cached collection.                                                *)
C8_Witness ==
    /\ raisedIn = "st_get_osm_geometries"
    /\ pipeline = "Failed"
    /\ uploaded_gdf # NoGdf
    /\ \E a \in AOIs : geomCache[a] # <<>>

(* C9: an uploaded zip archive without any .shp member is reported as an   *)
(* error and yields no geometry collection; the stored uploaded geometry   *)
(* is unchanged, and the run the upload starts leaves the pipeline Idle:   *)
(* no geocoding, fetch or render.                                          *)
C9_ZipWithoutShp ==
    [][/\ (/\ pc = "upload"
           /\ uploaded_file.ext = "zip"
           /\ uploaded_file.opens
           /\ uploaded_file.shpTop = 0
           /\ uploaded_file.shpNested = 0) =>
            /\ process_uploaded_file(uploaded_file).gdf = NoGdf
            /\ "error:no_shp_in_zip" \in messages'
            /\ "success:file_processed" \notin messages'
            /\ uploaded_gdf' = uploaded_gdf
            /\ pipeline' = "Idle"
       /\ ~submit_button' =>
            /\ pipeline' = "Idle"
            /\ aoi' = <<>>
            /\ geomCalls' = 0
            /\ fetches' = 0
            /\ renders' = 0
      ]_vars

(* C9 witness: a zip without .shp was processed in a session that already  *)
(* stores an uploaded geometry.                                            *)
C9_Witness ==
    /\ pc = "generate"
    /\ ~submit_button
    /\ uploaded_file.ext = "zip"
    /\ uploaded_file.opens
    /\ uploaded_file.shpTop = 0
    /\ uploaded_file.shpNested = 0
    /\ uploaded_gdf # NoGdf
    /\ "error:no_shp_in_zip" \in messages

(* C11: within one address-based request, get_aoi has returned an AOI      *)
(* before st_get_osm_geometries is called, and the fetch has returned a    *)
(* collection before st_plot_all is called; each of the three is called at *)
(* most once, in that order, and nothing is rendered in a request whose    *)
(* AOI resolution or geometry fetch did not succeed.                       *)
C11_ResolveFetchRenderOrder ==
    [][/\ (aoi' # aoi /\ aoi' # <<>>) =>
            /\ pc = "resolving"
            /\ aoi = <<>>
            /\ geomCalls = 0
            /\ renders = 0
       /\ geomCalls' > geomCalls =>
            /\ pc = "fetching"
            /\ aoi # <<>>
            /\ aoi' = aoi
            /\ geomCalls = 0
            /\ df = <<>>
            /\ renders = 0
       /\ (renders' > renders /\ pc # "plot_uploaded") =>
            /\ pc = "rendering"
            /\ aoi # <<>>
            /\ df # <<>>
            /\ geomCalls = 1
            /\ renders = 0
            /\ raisedIn = "none"
            /\ pipeline = "Ready"
      ]_vars

(* C11 witness: an address-based request that went through the three steps *)
(* and showed its figure, in a session that also stores an uploaded        *)
(* geometry it does not use.                                               *)
C11_Witness ==
    /\ pc = "done"
    /\ address # ""
    /\ aoi # <<>>
    /\ df # <<>>
    /\ geomCalls = 1
    /\ fetches = 1
    /\ renders = 1
    /\ "figure" \in messages
    /\ uploaded_gdf # NoGdf
    /\ ~use_uploaded_file

---------------------------------------------------------------------------
(* Properties of the location search section (SpecUI)                      *)

(* C12: search_locations is invoked exactly in the search step of a run    *)
(* whose text differs from the recorded search_query and has at least 3    *)
(* characters, and then for that text with limit 8; a run whose text has   *)
(* 2 characters or is the recorded query invokes nothing and leaves the    *)
(* stored results as they are; a run whose text is shorter than 2          *)
(* characters resets the stored results to empty.                          *)
C12_SearchTriggerRule ==
    [][/\ ~(uiPc = "search" /\ uiPc' = "display") => nCalls' = nCalls
       /\ (uiPc = "search" /\ uiPc' = "display") =>
            LET text == location_search
                searched == nCalls' = nCalls + 1
            IN  /\ searched <=> (text # search_query /\ Len(text) >= 3)
                /\ ~searched => nCalls' = nCalls
                /\ searched =>
                      /\ lastSearch'[1].query = text
                      /\ lastSearch'[1].limit = 8
                      /\ search_results' = lastSearch'[1].ret
                /\ (Len(text) = 2 \/ (text = search_query /\ Len(text) >= 2))
                      => search_results' = search_results
                /\ Len(text) < 2 => search_results' = <<>>
      ]_vars

(* C12 witness: after a search for a 3-character text had stored a result, *)
(* the text was cut to 1 character and the run reset the results without   *)
(* another call.                                                           *)
C12_Witness ==
    /\ uiPc = "display"
    /\ Len(location_search) = 1
    /\ search_results = <<>>
    /\ nCalls = 1
    /\ lastSearch # <<>>
    /\ Len(lastSearch[1].query) = 3
    /\ lastSearch[1].ret # <<>>

(* C15 as stated: after the search step of a run, a displayed result list  *)
(* (stored results not empty, text of at least 2 characters) is what       *)
(* search_locations returned for the current text: the last call was made  *)
(* for this text and the stored results are its return value.              *)
C15_DisplayedResultsCurrent ==
    (uiPc = "display" /\ search_results # <<>> /\ Len(location_search) >= 2) =>
        /\ lastSearch # <<>>
        /\ lastSearch[1].query = location_search
        /\ search_results = lastSearch[1].ret

===========================================================================
